---- MODULE Spec2Model ----
(***************************************************************************)
(* Wallet monitoring and threat scoring of redalert-bot:                   *)
(*   TransactionMonitor  (src/services/transactionMonitor.js)              *)
(*   ThreatAnalyzer      (src/services/threatAnalyzer.js)                  *)
(*   RedAlertBotWithButtons (the bot: add / remove wallet, threat handler) *)
(* Time is counted in whole minutes.                                       *)
(***************************************************************************)
EXTENDS Integers, Sequences, FiniteSets, TLC

(***************************************************************************)
(* Bounds of the model.                                                    *)
(***************************************************************************)
MaxAlerts == 2
MaxSubs == 4
MaxTime == 1
MaxFetches == 2
MaxTxCount == 6
MaxLines == 2
MaxAddTasks == 2
MaxStopTasks == 1
MaxCalls == 3
MaxEvents == 2
MaxElapsed == 3
MaxSweeps == 1

\* performPeriodicChecks resets a rolling counter after 5 minutes (300000 ms).
ResetMinutes == 5

(***************************************************************************)
(* Values.                                                                 *)
(***************************************************************************)
Users == {"u1", "u2"}

\* Strings a user may send as a wallet address.
Addresses == {"A1", "A2", "A1x", "0OIl"}

\* bs58 decoding of an address string: the number of bytes it decodes to,
\* -1 when the string holds a character outside the base58 alphabet.
DecodedLength(a) ==
    CASE a = "A1" -> 32
      [] a = "A2" -> 32
      [] a = "A1x" -> 33
      [] OTHER -> -1

\* new PublicKey(walletAddress) does not throw.
IsValidKey(a) == DecodedLength(a) = 32

ValidAddrs == {a \in Addresses : IsValidKey(a)}

Null == [null |-> TRUE]

RemoveAt(s, i) == [j \in 1..(Len(s) - 1) |-> IF j < i THEN s[j] ELSE s[j + 1]]

(***************************************************************************)
(* Log text.  A log line is a sequence of fragments, joined by spaces.     *)
(***************************************************************************)
Fragments ==
    {"Program", "invoke", "Instruction", "success", "Transfer", "transfer",
     "authority", "approve", "allowance", "SomeDrainerProgram", "Jupiter",
     "Token Program", "MyProgram", "unknown_program", "500000", "1000000",
     "2000000"}

\* String.prototype.toLowerCase on a fragment.
ToLowerCase(f) ==
    CASE f = "Program" -> "program"
      [] f = "Instruction" -> "instruction"
      [] f = "Transfer" -> "transfer"
      [] f = "SomeDrainerProgram" -> "somedrainerprogram"
      [] f = "Jupiter" -> "jupiter"
      [] f = "Token Program" -> "token program"
      [] f = "MyProgram" -> "myprogram"
      [] OTHER -> f

\* The search patterns of the scorer that occur in a lower-case fragment.
Substrings(lf) ==
    CASE lf = "invoke" -> {"invoke"}
      [] lf = "transfer" -> {"transfer"}
      [] lf = "authority" -> {"authority"}
      [] lf = "approve" -> {"approve"}
      [] lf = "allowance" -> {"allowance"}
      [] lf = "somedrainerprogram" -> {"drainer"}
      [] lf = "jupiter" -> {"jupiter"}
      [] lf = "token program" -> {"token program"}
      [] lf = "unknown_program" -> {"unknown_program"}
      [] OTHER -> {}

\* lowerLog.includes(pattern)
Includes(line, pattern) ==
    \E i \in 1..Len(line) : pattern \in Substrings(ToLowerCase(line[i]))

IsDigits(f) == f \in {"500000", "1000000", "2000000"}

\* parseInt of a fragment of digits.
ParseInt(f) ==
    CASE f = "500000" -> 500000
      [] f = "1000000" -> 1000000
      [] f = "2000000" -> 2000000
      [] OTHER -> 0

knownPrograms ==
    {"system program", "token program", "associated token", "spl-token",
     "jupiter", "raydium", "serum", "orca"}

suspiciousPatterns ==
    {"drainer", "stealer", "malicious", "phishing", "unknown_program"}

isKnownProgram(line) == \E p \in knownPrograms : Includes(line, p)

\* log.match(/transfer.*?(\d+)/i): the first run of digits after the first
\* "transfer"; the transfer is large when it exceeds 1000000.
detectLargeTransfer(line) ==
    LET ts == {i \in 1..Len(line) : "transfer" \in Substrings(ToLowerCase(line[i]))}
    IN  IF ts = {} THEN FALSE
        ELSE LET t == CHOOSE i \in ts : \A j \in ts : i <= j
                 ds == {i \in (t + 1)..Len(line) : IsDigits(line[i])}
             IN  IF ds = {} THEN FALSE
                 ELSE LET d == CHOOSE i \in ds : \A j \in ds : i <= j
                      IN  ParseInt(line[d]) > 1000000

detectSuspiciousProgram(line) == \E p \in suspiciousPatterns : Includes(line, p)

(***************************************************************************)
(* Findings: a finding is <<description, weight>>.                         *)
(***************************************************************************)
\* LineFindings with the authority-transfer rule weighing 50.
LineFindingsAuthority50(line) ==
    (IF Includes(line, "transfer") /\ Includes(line, "authority")
        THEN << <<"Token authority transfer detected", 50>> >> ELSE << >>)
    \o (IF Includes(line, "invoke") /\ ~isKnownProgram(line)
        THEN << <<"Interaction with unknown program", 30>> >> ELSE << >>)
    \o (IF Includes(line, "transfer") /\ detectLargeTransfer(line)
        THEN << <<"Large token transfer detected", 40>> >> ELSE << >>)
    \o (IF detectSuspiciousProgram(line)
        THEN << <<"Interaction with flagged program", 80>> >> ELSE << >>)
    \o (IF Includes(line, "approve") \/ Includes(line, "allowance")
        THEN << <<"Token approval detected - potential drainer", 50>> >> ELSE << >>)

\* LineFindings with the unknown-program rule not asking for "invoke".
LineFindingsAnyProgram(line) ==
    (IF Includes(line, "transfer") /\ Includes(line, "authority")
        THEN << <<"Token authority transfer detected", 60>> >> ELSE << >>)
    \o (IF ~isKnownProgram(line)
        THEN << <<"Interaction with unknown program", 30>> >> ELSE << >>)
    \o (IF Includes(line, "transfer") /\ detectLargeTransfer(line)
        THEN << <<"Large token transfer detected", 40>> >> ELSE << >>)
    \o (IF detectSuspiciousProgram(line)
        THEN << <<"Interaction with flagged program", 80>> >> ELSE << >>)
    \o (IF Includes(line, "approve") \/ Includes(line, "allowance")
        THEN << <<"Token approval detected - potential drainer", 50>> >> ELSE << >>)

\* The findings of one log line, in the order the scorer pushes them.
LineFindings(line) ==
    (IF Includes(line, "transfer") /\ Includes(line, "authority")
        THEN << <<"Token authority transfer detected", 60>> >> ELSE << >>)
    \o (IF Includes(line, "invoke") /\ ~isKnownProgram(line)
        THEN << <<"Interaction with unknown program", 30>> >> ELSE << >>)
    \o (IF Includes(line, "transfer") /\ detectLargeTransfer(line)
        THEN << <<"Large token transfer detected", 40>> >> ELSE << >>)
    \o (IF detectSuspiciousProgram(line)
        THEN << <<"Interaction with flagged program", 80>> >> ELSE << >>)
    \o (IF Includes(line, "approve") \/ Includes(line, "allowance")
        THEN << <<"Token approval detected - potential drainer", 50>> >> ELSE << >>)

\* LogFindings reading only the last line of the log.
LogFindingsLastLineOnly(lines) ==
    IF lines = << >> THEN << >> ELSE LineFindings(lines[Len(lines)])

RECURSIVE LogFindings(_)
LogFindings(lines) ==
    IF lines = << >> THEN << >>
    ELSE LineFindings(Head(lines)) \o LogFindings(Tail(lines))

\* preBalances[i] || 0
PreBalance(meta, i) == IF i <= Len(meta.preBalances) THEN meta.preBalances[i] ELSE 0

RECURSIVE BalanceFindings(_, _)
BalanceFindings(meta, i) ==
    IF i > Len(meta.postBalances) THEN << >>
    ELSE (IF meta.postBalances[i] - PreBalance(meta, i) < -1000000
             THEN << <<"Significant SOL balance decrease", 30>> >> ELSE << >>)
         \o BalanceFindings(meta, i + 1)

\* The checks on transaction.meta.
StructureFindings(transaction) ==
    IF transaction.meta.null THEN << >>
    ELSE (IF transaction.meta.err
             THEN << <<"Transaction failed - possible attack attempt", 20>> >> ELSE << >>)
         \o (IF transaction.accountKeys > 10
             THEN << <<"High number of account interactions", 25>> >> ELSE << >>)
         \o BalanceFindings(transaction.meta, 1)

\* txPerMinute > 2, with txPerMinute = transactionCount / minutes elapsed; a
\* division by zero gives Infinity.
RateExceeds(count, elapsed) ==
    IF elapsed = 0 THEN count > 0 ELSE count > 2 * elapsed

FrequencyFindings(walletInfo, clock) ==
    IF ~walletInfo.null /\ walletInfo.transactionCount > 5
          /\ RateExceeds(walletInfo.transactionCount, clock - walletInfo.lastCheck)
       THEN << <<"High transaction frequency detected", 35>> >>
       ELSE << >>

RECURSIVE SumWeights(_)
SumWeights(fs) == IF fs = << >> THEN 0 ELSE Head(fs)[2] + SumWeights(Tail(fs))

Descriptions(fs) == [i \in 1..Len(fs) |-> fs[i][1]]

Severity(riskScore) == IF riskScore >= 70 THEN "CRITICAL" ELSE "WARNING"

TxFindings(walletInfo, clock, transaction, logs) ==
    LogFindings(logs.logs) \o StructureFindings(transaction)
        \o FrequencyFindings(walletInfo, clock)

\* The risk score analyzeTransaction accumulates.
TxRiskScore(walletInfo, clock, transaction, logs) ==
    SumWeights(TxFindings(walletInfo, clock, transaction, logs))

\* analyzeTransaction reporting from a score of 40 on (riskScore >= 40).
analyzeTransactionFrom40(walletInfo, clock, transaction, logs) ==
    IF transaction.null THEN Null
    ELSE LET fs == TxFindings(walletInfo, clock, transaction, logs)
             riskScore == TxRiskScore(walletInfo, clock, transaction, logs)
         IN  IF riskScore >= 40
                THEN [null |-> FALSE, type |-> Severity(riskScore),
                      source |-> "Transaction Analysis", riskScore |-> riskScore,
                      threats |-> Descriptions(fs), signature |-> logs.signature]
                ELSE Null

\* TransactionMonitor.analyzeTransaction: the threat, or Null.
analyzeTransaction(walletInfo, clock, transaction, logs) ==
    IF transaction.null THEN Null
    ELSE LET fs == TxFindings(walletInfo, clock, transaction, logs)
             riskScore == TxRiskScore(walletInfo, clock, transaction, logs)
         IN  IF riskScore > 40
                THEN [null |-> FALSE, type |-> Severity(riskScore),
                      source |-> "Transaction Analysis", riskScore |-> riskScore,
                      threats |-> Descriptions(fs), signature |-> logs.signature]
                ELSE Null

\* AccountFindings with the weight of the closed account given to the drained one.
AccountFindingsDrained70(accountInfo) ==
    IF accountInfo.null THEN << <<"Account closed or emptied", 70>> >>
    ELSE IF accountInfo.lamports = 0 THEN << <<"Account drained of SOL", 70>> >>
    ELSE << >>

\* The findings of analyzeAccountChange.
AccountFindings(accountInfo) ==
    IF accountInfo.null THEN << <<"Account closed or emptied", 70>> >>
    ELSE IF accountInfo.lamports = 0 THEN << <<"Account drained of SOL", 80>> >>
    ELSE << >>

\* TransactionMonitor.analyzeAccountChange: the threat, or Null.
analyzeAccountChange(accountInfo) ==
    LET fs == AccountFindings(accountInfo)
        riskScore == SumWeights(fs)
    IN  IF riskScore > 50
           THEN [null |-> FALSE, type |-> Severity(riskScore),
                 source |-> "Account Change", riskScore |-> riskScore,
                 threats |-> Descriptions(fs), signature |-> "none"]
           ELSE Null

(***************************************************************************)
(* ThreatAnalyzer.                                                         *)
(***************************************************************************)
\* Labels the enrichment service may return in "threats".
AiLabels == {"approve", "transfer_all", "Suspicious", "Account drained of SOL",
             "AI analysis incomplete"}

\* The threat database patterns that occur in a lower-cased threat label.  No
\* description pushed by the scorer holds one of them.
LabelSubstrings(t) ==
    CASE t = "approve" -> {"approve"}
      [] t = "transfer_all" -> {"transfer_all"}
      [] OTHER -> {}

\* initializeThreatDatabase
threatDatabase ==
    {[type |-> "token_drainer", patterns |-> {"approve", "transfer_all", "authority_change"}],
     [type |-> "phishing_site", patterns |-> {"multiple_approvals", "unknown_program", "urgent_transfer"}],
     [type |-> "rug_pull", patterns |-> {"liquidity_removal", "massive_sell", "dev_dump"}]}

\* ThreatAnalyzer.matchKnownThreats: the types of the database entries of which
\* at least two patterns occur in the threat list.
matchKnownThreats(threats) ==
    {e.type : e \in {d \in threatDatabase :
        Cardinality({p \in d.patterns :
            \E i \in 1..Len(threats) : p \in LabelSubstrings(threats[i])}) >= 2}}

Max(a, b) == IF a >= b THEN a ELSE b

\* Which of the words updateWalletProfile looks for occur in a lower-cased line
\* it is given.  handleThreatDetected passes the threat's descriptions as the
\* lines; of the descriptions of the scorers only these hold such a word.
ProfileWords(t) ==
    CASE t = "Token authority transfer detected" -> {"transfer", "authority"}
      [] t = "Large token transfer detected" -> {"transfer"}
      [] OTHER -> {}

\* The patterns updateWalletProfile adds for the lines it is given.
ProfilePatterns(lines) ==
    {CASE w = "authority" -> "authority_change" [] OTHER -> w :
        w \in UNION {ProfileWords(lines[k]) : k \in 1..Len(lines)}}

\* ThreatAnalyzer.updateWalletProfile(walletAddress, transaction, logs), with
\* logs.logs = lines.
updateWalletProfile(profiles, a, lines) ==
    LET profile == IF profiles[a].null
                      THEN [null |-> FALSE, totalTransactions |-> 0, patterns |-> {}]
                      ELSE profiles[a]
    IN  [profiles EXCEPT ![a] =
            [profile EXCEPT !.totalTransactions = @ + 1,
                            !.patterns = @ \cup ProfilePatterns(lines)]]

\* [...new Set([...a, ...b])]: a then b, each label kept at its first place.
RECURSIVE Dedup(_, _)
Dedup(s, seen) ==
    IF s = << >> THEN << >>
    ELSE IF Head(s) \in seen THEN Dedup(Tail(s), seen)
    ELSE <<Head(s)>> \o Dedup(Tail(s), seen \cup {Head(s)})

\* AiScore following the enrichment's threat level at any confidence.
AiScoreAnyConfidence(riskScore, aiAnalysis) ==
    IF aiAnalysis.null THEN riskScore
    ELSE IF aiAnalysis.threatLevel = "CRITICAL" THEN Max(riskScore, 90)
    ELSE IF aiAnalysis.threatLevel = "HIGH" THEN Max(riskScore, 75)
    ELSE riskScore

\* The score after the adjustment by the enrichment's confidence.
AiScore(riskScore, aiAnalysis) ==
    IF aiAnalysis.null \/ ~(aiAnalysis.confidence > 80) THEN riskScore
    ELSE IF aiAnalysis.threatLevel = "CRITICAL" THEN Max(riskScore, 90)
    ELSE IF aiAnalysis.threatLevel = "HIGH" THEN Max(riskScore, 75)
    ELSE riskScore

\* ThreatAnalyzer.combineAnalysis, for a basicThreat that is not null.
combineAnalysis(basicThreat, aiAnalysis) ==
    LET threats == IF aiAnalysis.null THEN basicThreat.threats
                   ELSE Dedup(basicThreat.threats \o aiAnalysis.threats, {})
        scored == AiScore(basicThreat.riskScore, aiAnalysis)
    IN  [basicThreat EXCEPT
            !.threats = threats,
            !.riskScore = IF matchKnownThreats(threats) # {} THEN Max(scored, 80) ELSE scored]

(***************************************************************************)
(* Inputs of the model.                                                    *)
(***************************************************************************)
\* Log lines the provider reports.
Lines ==
    {<<"Program", "success">>,
     <<"Program", "invoke", "Jupiter">>,
     <<"Program", "invoke", "MyProgram">>,
     <<"Program", "invoke", "SomeDrainerProgram">>,
     <<"Transfer", "2000000">>,
     <<"Instruction", "approve", "allowance", "500000">>,
     <<"Transfer", "authority", "2000000">>,
     <<"Transfer", "authority">>}

Signatures == {"sig1", "sig2"}

\* logs.logs of a log event: up to MaxLines lines.
LogLists == UNION {[1..n -> Lines] : n \in 0..MaxLines}

\* What getTransaction resolves to.
CleanMeta == [null |-> FALSE, err |-> FALSE, preBalances |-> <<5000000>>, postBalances |-> <<5000000>>]

Transactions ==
    {Null,
     [null |-> FALSE, meta |-> Null, accountKeys |-> 2],
     [null |-> FALSE, meta |-> CleanMeta, accountKeys |-> 2],
     [null |-> FALSE, meta |-> [CleanMeta EXCEPT !.err = TRUE], accountKeys |-> 11],
     [null |-> FALSE, meta |-> [CleanMeta EXCEPT !.postBalances = <<3000000, 0>>], accountKeys |-> 10]}

\* What the enrichment service answers; Null when it is disabled or fails.
AiResults ==
    {Null,
     [null |-> FALSE, threatLevel |-> "CRITICAL", confidence |-> 90, threats |-> << >>],
     [null |-> FALSE, threatLevel |-> "HIGH", confidence |-> 80, threats |-> <<"approve", "transfer_all">>]}

\* The objects the enrichment service's answer may hold as JSON.
AiJson ==
    {[null |-> FALSE, threatLevel |-> "CRITICAL", confidence |-> 90, threats |-> << >>],
     [null |-> FALSE, threatLevel |-> "HIGH", confidence |-> 80, threats |-> <<"approve", "transfer_all">>],
     [null |-> FALSE, threatLevel |-> "CRITICAL", confidence |-> 80, threats |-> << >>],
     [null |-> FALSE, threatLevel |-> "HIGH", confidence |-> 85, threats |-> <<"Suspicious">>]}

\* What becomes of the request of getAIAnalysis: no key is configured and no
\* request is made; the request times out; the service answers with a status
\* other than 2xx; the body has no choices; the content is text with no JSON
\* object in it; the content has braces around something that is not JSON;
\* the content holds a JSON object.
AiResponses ==
    {[kind |-> k, value |-> Null] :
        k \in {"disabled", "timeout", "non2xx", "noChoices", "text", "badJson"}}
    \cup {[kind |-> "json", value |-> v] : v \in AiJson}

\* ThreatAnalyzer.parseAIResponse on the content of an answer.
parseAIResponse(response) ==
    CASE response.kind = "text" ->
            [null |-> FALSE, threatLevel |-> "MEDIUM", confidence |-> 50,
             threats |-> <<"AI analysis incomplete">>]
      [] response.kind = "badJson" -> Null
      [] OTHER -> response.value

\* The aiAnalysis of analyzeTransactionWithAI: null without a key, else what
\* getAIAnalysis returns, null when the request or the reading of the body
\* throws.
getAIAnalysis(response) ==
    IF response.kind \in {"disabled", "timeout", "non2xx", "noChoices"} THEN Null
    ELSE parseAIResponse(response)

\* The account a provider event or lookup reports for a state of the chain.
AccountInfoOf(c) ==
    CASE c = "absent" -> Null
      [] c = "zero" -> [null |-> FALSE, lamports |-> 0]
      [] OTHER -> [null |-> FALSE, lamports |-> 2000000000]

ChainStates == {"funded", "zero", "absent"}

\* The log events of the runs of the whole program.
LogCatalogue ==
    {[signature |-> "sig1", logs |-> << <<"Program", "success">> >>],
     [signature |-> "sig1", logs |-> << <<"Program", "invoke", "MyProgram">> >>],
     [signature |-> "sig2", logs |-> << <<"Program", "invoke", "SomeDrainerProgram">>,
                                        <<"Instruction", "approve", "allowance", "500000">> >>]}

(***************************************************************************)
(* State.                                                                  *)
(***************************************************************************)
VARIABLES
    monitoredWallets,   \* TransactionMonitor.monitoredWallets: address -> walletInfo or Null
    threatCallbacks,    \* TransactionMonitor.threatCallbacks: address -> callback or Null
    isMonitoring,       \* TransactionMonitor.isMonitoring
    timers,             \* the number of setInterval timers started
    subscriptions,      \* the provider's live subscriptions: [id, kind, address]
    nextSubscriptionId, \* the provider's next client subscription id
    chain,              \* the state of each account on the chain
    now,                \* Date.now(), in minutes
    fetches,            \* handleTransactionLogs calls awaiting getTransaction
    threatTasks,        \* handleThreatDetected calls awaiting the enrichment
    delivered,          \* the Alerts sent to the users, in order
    userWallets,        \* the bot's userWallets: user -> list of addresses
    addTasks,           \* handleAddWallet calls awaiting the "Adding Wallet" message
    stopTasks,          \* stopMonitoring calls awaiting an unsubscribe
    sweeps,             \* performPeriodicChecks runs awaiting getAccountInfo
    walletProfiles,     \* ThreatAnalyzer.walletProfiles: address -> profile or Null
    threatAlerts,       \* the bot's threatAlerts: the records stored, each under its alertId
    apiCalls,           \* the number of lifecycle calls made (a bound of the model)
    providerEvents,     \* the number of provider and timer events (a bound of the model)
    last,               \* the handler that ran last and what it returned
    observed            \* when switched on: the last evaluation, its inputs and result

vars ==
    <<monitoredWallets, threatCallbacks, isMonitoring, timers, subscriptions,
      nextSubscriptionId, chain, now, fetches, threatTasks, delivered,
      userWallets, addTasks, stopTasks, sweeps, walletProfiles, threatAlerts,
      apiCalls, providerEvents, last, observed>>

monitorVars ==
    <<monitoredWallets, threatCallbacks, isMonitoring, timers, subscriptions,
      nextSubscriptionId>>

\* if (walletInfo.subscriptionId): undefined (-1) and 0 are falsy.
Truthy(handle) == handle > 0

SubsOf(kind, a) == {s \in subscriptions : s.kind = kind /\ s.address = a}

Init ==
    /\ monitoredWallets = [a \in Addresses |-> Null]
    /\ threatCallbacks = [a \in Addresses |-> Null]
    /\ isMonitoring = FALSE
    /\ timers = 0
    /\ subscriptions = {}
    /\ nextSubscriptionId = 0
    /\ chain = [a \in ValidAddrs |-> "funded"]
    /\ now = 0
    /\ fetches = << >>
    /\ threatTasks = << >>
    /\ delivered = << >>
    /\ userWallets = [u \in Users |-> << >>]
    /\ addTasks = << >>
    /\ stopTasks = << >>
    /\ sweeps = << >>
    /\ threatAlerts = {}
    /\ walletProfiles = [a \in Addresses |-> Null]
    /\ apiCalls = 0
    /\ providerEvents = 0
    /\ last = [op |-> "init"]
    /\ observed = [on |-> FALSE]

(***************************************************************************)
(* TransactionMonitor.startMonitoring and stopMonitoring.                  *)
(***************************************************************************)
\* The callback the bot registers: handleThreatDetected bound to userId.
Callback(userId) == [null |-> FALSE, userId |-> userId]

\* The entry startMonitoring stores before it subscribes.
NewWalletInfo(userId) ==
    [null |-> FALSE, userId |-> userId, lastCheck |-> now, transactionCount |-> 0,
     subscriptionId |-> -1, logsSubscriptionId |-> -1, hadAccount |-> "undefined"]

\* What the provider does with the two subscribe calls of startMonitoring.
SubscribeOutcomes == {"ok", "accountFails", "logsFails"}

\* startPeriodicChecks(): the interval timer is started unless the checks are
\* marked as running.
startPeriodicChecks ==
    IF isMonitoring THEN UNCHANGED <<isMonitoring, timers>>
    ELSE /\ isMonitoring' = TRUE
         /\ timers' = timers + 1

\* The end of startMonitoring starting a timer on every call.
startChecksAlways ==
    /\ isMonitoring' = TRUE
    /\ timers' = timers + 1

\* The end of startMonitoring: if (!this.isMonitoring) this.startPeriodicChecks()
startChecksIfIdle ==
    IF ~isMonitoring THEN startPeriodicChecks
    ELSE UNCHANGED <<isMonitoring, timers>>

\* startMonitoring after the address was found valid.
startValid(a, userId, outcome) ==
    /\ threatCallbacks' = [threatCallbacks EXCEPT ![a] = Callback(userId)]
    /\ CASE outcome = "accountFails" ->
              /\ monitoredWallets' = [monitoredWallets EXCEPT ![a] = NewWalletInfo(userId)]
              /\ UNCHANGED <<subscriptions, nextSubscriptionId, isMonitoring, timers>>
         [] outcome = "logsFails" ->
              /\ monitoredWallets' = [monitoredWallets EXCEPT ![a] = NewWalletInfo(userId)]
              /\ subscriptions' = subscriptions \cup
                    {[id |-> nextSubscriptionId, kind |-> "account", address |-> a]}
              /\ nextSubscriptionId' = nextSubscriptionId + 1
              /\ UNCHANGED <<isMonitoring, timers>>
         [] OTHER ->
              /\ monitoredWallets' = [monitoredWallets EXCEPT ![a] =
                    [NewWalletInfo(userId) EXCEPT
                        !.subscriptionId = nextSubscriptionId,
                        !.logsSubscriptionId = nextSubscriptionId + 1]]
              /\ subscriptions' = subscriptions \cup
                    {[id |-> nextSubscriptionId, kind |-> "account", address |-> a],
                     [id |-> nextSubscriptionId + 1, kind |-> "logs", address |-> a]}
              /\ nextSubscriptionId' = nextSubscriptionId + 2
              /\ startChecksIfIdle

\* startMonitoring storing the entry and the callback before it validates.
startMonitoringStoresFirst(a, userId, outcome) ==
    IF ~IsValidKey(a)
       THEN /\ monitoredWallets' = [monitoredWallets EXCEPT ![a] = NewWalletInfo(userId)]
            /\ threatCallbacks' = [threatCallbacks EXCEPT ![a] = Callback(userId)]
            /\ UNCHANGED <<subscriptions, nextSubscriptionId, isMonitoring, timers>>
       ELSE startValid(a, userId, outcome)

\* startMonitoring(walletAddress, userId, threatCallback); it has no await.
\* new PublicKey throws on a malformed address, before anything is stored.
startMonitoring(a, userId, outcome) ==
    IF ~IsValidKey(a) THEN UNCHANGED monitorVars
    ELSE startValid(a, userId, outcome)

\* The value startMonitoring returns.
startMonitoringResult(a, outcome) == IsValidKey(a) /\ outcome = "ok"

\* monitoredWallets.delete and threatCallbacks.delete
DeleteWallet(a) ==
    /\ monitoredWallets' = [monitoredWallets EXCEPT ![a] = Null]
    /\ threatCallbacks' = [threatCallbacks EXCEPT ![a] = Null]

\* connection.removeAccountChangeListener / removeOnLogsListener
Unsubscribe(id) == subscriptions' = {s \in subscriptions : s.id # id}

\* stopMonitoring of a watched wallet, up to its first await (or to its end
\* when it awaits nothing).  unsubOk: the provider's unsubscribe call resolves;
\* otherwise it rejects and the catch logs the error.
stopWatched(a, walletInfo, unsubOk) ==
    IF Truthy(walletInfo.subscriptionId) THEN
        /\ last' = [op |-> "stopMonitoring", address |-> a, watched |-> TRUE,
                    unsubscribed |-> {walletInfo.subscriptionId}, error |-> ~unsubOk]
        /\ UNCHANGED <<monitoredWallets, threatCallbacks>>
        /\ IF unsubOk
              THEN /\ Unsubscribe(walletInfo.subscriptionId)
                   /\ stopTasks' = Append(stopTasks,
                          [address |-> a, pc |-> "logs",
                           logsSubscriptionId |-> walletInfo.logsSubscriptionId])
              ELSE UNCHANGED <<subscriptions, stopTasks>>
    ELSE IF Truthy(walletInfo.logsSubscriptionId) THEN
        /\ last' = [op |-> "stopMonitoring", address |-> a, watched |-> TRUE,
                    unsubscribed |-> {walletInfo.logsSubscriptionId}, error |-> ~unsubOk]
        /\ UNCHANGED <<monitoredWallets, threatCallbacks>>
        /\ IF unsubOk
              THEN /\ Unsubscribe(walletInfo.logsSubscriptionId)
                   /\ stopTasks' = Append(stopTasks,
                          [address |-> a, pc |-> "delete", logsSubscriptionId |-> -1])
              ELSE UNCHANGED <<subscriptions, stopTasks>>
    ELSE
        /\ DeleteWallet(a)
        /\ last' = [op |-> "stopMonitoring", address |-> a, watched |-> TRUE,
                    unsubscribed |-> {}, error |-> FALSE]
        /\ UNCHANGED <<subscriptions, stopTasks>>

\* stopMonitoring without the test of walletInfo: reading a handle of undefined
\* throws, which the catch logs.
stopMonitoringUnguarded(a, unsubOk) ==
    LET walletInfo == monitoredWallets[a]
    IN  IF walletInfo.null THEN
            /\ UNCHANGED <<monitoredWallets, threatCallbacks, subscriptions, stopTasks>>
            /\ last' = [op |-> "stopMonitoring", address |-> a, watched |-> FALSE,
                        unsubscribed |-> {}, error |-> TRUE]
        ELSE stopWatched(a, walletInfo, unsubOk)

\* TransactionMonitor.stopMonitoring.
stopMonitoring(a, unsubOk) ==
    LET walletInfo == monitoredWallets[a]
    IN  IF walletInfo.null THEN
            /\ UNCHANGED <<monitoredWallets, threatCallbacks, subscriptions, stopTasks>>
            /\ last' = [op |-> "stopMonitoring", address |-> a, watched |-> FALSE,
                        unsubscribed |-> {}, error |-> FALSE]
        ELSE stopWatched(a, walletInfo, unsubOk)

\* stopMonitoring resumed after an await.
stopMonitoringResume(i, unsubOk) ==
    LET t == stopTasks[i]
    IN  IF t.pc = "logs" /\ Truthy(t.logsSubscriptionId) THEN
            /\ last' = [op |-> "stopMonitoringResume", address |-> t.address,
                        unsubscribed |-> {t.logsSubscriptionId}, error |-> ~unsubOk]
            /\ UNCHANGED <<monitoredWallets, threatCallbacks>>
            /\ IF unsubOk
                  THEN /\ Unsubscribe(t.logsSubscriptionId)
                       /\ stopTasks' = [stopTasks EXCEPT ![i].pc = "delete"]
                  ELSE /\ stopTasks' = RemoveAt(stopTasks, i)
                       /\ UNCHANGED subscriptions
        ELSE
            /\ DeleteWallet(t.address)
            /\ stopTasks' = RemoveAt(stopTasks, i)
            /\ last' = [op |-> "stopMonitoringResume", address |-> t.address,
                        unsubscribed |-> {}, error |-> FALSE]
            /\ UNCHANGED subscriptions

(***************************************************************************)
(* The walletInfo objects held by the health checks in flight.             *)
(***************************************************************************)
\* A performHealthCheck awaiting getAccountInfo holds the walletInfo object it
\* read from the registry.  When entry a is deleted or replaced by another
\* object, the checks that read it keep the object as it was.
Detached(s, a) ==
    [i \in 1..Len(s) |->
        IF s[i].address = a /\ ~s[i].detached /\ ~monitoredWallets[a].null
           THEN [s[i] EXCEPT !.detached = TRUE, !.walletInfo = monitoredWallets[a]]
           ELSE s[i]]

\* Key a is inserted in the Map anew: it comes after the position of every
\* iteration under way, which will reach it (again).
Reinserted(s, a) == [i \in 1..Len(s) |-> [s[i] EXCEPT !.visited = @ \ {a}]]

\* The runs in flight after startMonitoring(a, ...).
SweepsAfterStart(a) ==
    IF ~IsValidKey(a) THEN sweeps
    ELSE IF monitoredWallets[a].null THEN Reinserted(sweeps, a)
    ELSE Detached(sweeps, a)

\* The runs in flight after a step of stopMonitoring(a); deleted: the step
\* deleted the entry.
SweepsAfterStop(a, deleted) ==
    IF deleted /\ ~monitoredWallets[a].null THEN Detached(sweeps, a) ELSE sweeps

(***************************************************************************)
(* Calls of the wallet lifecycle API.                                      *)
(***************************************************************************)
Watch(a, userId, outcome) ==
    /\ apiCalls < MaxCalls
    /\ apiCalls' = apiCalls + 1
    /\ nextSubscriptionId + 2 <= MaxSubs
    /\ startMonitoring(a, userId, outcome)
    /\ last' = [op |-> "startMonitoring", address |-> a, userId |-> userId,
                ret |-> startMonitoringResult(a, outcome)]
    /\ sweeps' = SweepsAfterStart(a)
    /\ UNCHANGED <<threatAlerts, walletProfiles, observed, providerEvents, chain, now, fetches, threatTasks,
                   delivered, userWallets, addTasks, stopTasks>>

Unwatch(a, unsubOk) ==
    /\ apiCalls < MaxCalls
    /\ apiCalls' = apiCalls + 1
    /\ Len(stopTasks) < MaxStopTasks
    /\ stopMonitoring(a, unsubOk)
    /\ sweeps' = SweepsAfterStop(a, monitoredWallets'[a].null)
    /\ UNCHANGED <<threatAlerts, walletProfiles, observed, providerEvents, isMonitoring, timers, nextSubscriptionId, chain, now,
                   fetches, threatTasks, delivered, userWallets, addTasks>>

UnwatchResume(i, unsubOk) ==
    /\ stopMonitoringResume(i, unsubOk)
    /\ sweeps' = SweepsAfterStop(stopTasks[i].address,
                                 monitoredWallets'[stopTasks[i].address].null)
    /\ UNCHANGED <<threatAlerts, walletProfiles, observed, apiCalls, providerEvents, isMonitoring, timers, nextSubscriptionId, chain, now,
                   fetches, threatTasks, delivered, userWallets, addTasks>>

(***************************************************************************)
(* Provider events and the alert path.                                     *)
(***************************************************************************)
\* n copies of x.
Copies(n, x) == [i \in 1..n |-> x]

\* sendThreatAlert calling the wallet's owner whether or not a callback is
\* registered.
ThreatCallsWithoutLookup(a, threat, n) ==
    IF threat.null THEN << >>
    ELSE Copies(n, [address |-> a,
                    userId |-> IF threatCallbacks[a].null THEN "u1"
                               ELSE threatCallbacks[a].userId,
                    basicThreat |-> threat])

\* sendThreatAlert: the handleThreatDetected calls n handler runs start.
ThreatCalls(a, threat, n) ==
    IF threat.null \/ threatCallbacks[a].null THEN << >>
    ELSE Copies(n, [address |-> a, userId |-> threatCallbacks[a].userId,
                    basicThreat |-> threat])

\* The profiles after the handleThreatDetected calls started: each runs, before
\* its first await, into analyzeTransactionWithAI and updateWalletProfile.
RECURSIVE ProfilesAfter(_, _)
ProfilesAfter(profiles, calls) ==
    IF calls = << >> THEN profiles
    ELSE ProfilesAfter(
             updateWalletProfile(profiles, Head(calls).address,
                                 Head(calls).basicThreat.threats),
             Tail(calls))

\* The account of a changes on the chain; the provider calls
\* handleAccountChange once for every account subscription of a.
AccountChange(a, c) ==
    LET n == Cardinality(SubsOf("account", a))
        threat == IF monitoredWallets[a].null THEN Null
                  ELSE analyzeAccountChange(AccountInfoOf(c))
        calls == ThreatCalls(a, threat, n)
    IN  /\ c # chain[a]
        /\ providerEvents < MaxEvents
        /\ providerEvents' = providerEvents + 1
        /\ Len(threatTasks) + Len(delivered) + Len(calls) <= MaxAlerts
        /\ chain' = [chain EXCEPT ![a] = c]
        /\ threatTasks' = threatTasks \o calls
        /\ walletProfiles' = ProfilesAfter(walletProfiles, calls)
        /\ last' = [op |-> "accountChange", address |-> a, previous |-> chain[a],
                    alerts |-> Len(calls)]
        /\ observed' = IF observed.on
                           THEN [on |-> TRUE, accountInfo |-> AccountInfoOf(c),
                                 riskScore |-> SumWeights(AccountFindings(AccountInfoOf(c))),
                                 threat |-> threat]
                           ELSE observed
        /\ UNCHANGED <<threatAlerts, sweeps, monitorVars, now, fetches, delivered, userWallets, addTasks,
                       stopTasks, apiCalls>>

\* A transaction of a is logged; the provider calls handleTransactionLogs once
\* for every log subscription of a.  Each call runs up to its await of
\* getTransaction.
LogEvent(a, logs) ==
    LET n == Cardinality(SubsOf("logs", a))
        walletInfo == monitoredWallets[a]
    IN  /\ n > 0
        /\ providerEvents < MaxEvents
        /\ providerEvents' = providerEvents + 1
        /\ IF walletInfo.null
              THEN UNCHANGED <<monitoredWallets, fetches>>
              ELSE /\ walletInfo.transactionCount + n <= MaxTxCount
                   /\ Len(fetches) + n <= MaxFetches
                   /\ monitoredWallets' = [monitoredWallets EXCEPT
                          ![a].transactionCount = walletInfo.transactionCount + n]
                   /\ fetches' = fetches \o Copies(n, [address |-> a, logs |-> logs])
        /\ last' = [op |-> "logEvent", address |-> a]
        /\ UNCHANGED <<threatAlerts, walletProfiles, sweeps, observed, threatCallbacks, isMonitoring, timers, subscriptions,
                       nextSubscriptionId, chain, now, threatTasks, delivered,
                       userWallets, addTasks, stopTasks, apiCalls>>

\* getTransaction rejects.
FetchError == [null |-> TRUE, error |-> TRUE]

\* handleTransactionLogs resumed with what getTransaction gave.
FetchDone(i, transaction) ==
    LET t == fetches[i]
        walletInfo == monitoredWallets[t.address]
        failed == transaction = FetchError
        threat == IF failed THEN Null
                  ELSE analyzeTransaction(walletInfo, now, transaction, t.logs)
        calls == ThreatCalls(t.address, threat, 1)
    IN  /\ Len(threatTasks) + Len(delivered) + Len(calls) <= MaxAlerts
        /\ fetches' = RemoveAt(fetches, i)
        /\ threatTasks' = threatTasks \o calls
        /\ walletProfiles' = ProfilesAfter(walletProfiles, calls)
        /\ last' = [op |-> "transactionLogs", address |-> t.address,
                    raised |-> ~threat.null, alerts |-> Len(calls)]
        /\ observed' = IF observed.on
                           THEN [on |-> TRUE, logs |-> t.logs, transaction |-> transaction,
                                 walletInfo |-> walletInfo,
                                 riskScore |-> IF transaction.null THEN -1
                                     ELSE TxRiskScore(walletInfo, now, transaction, t.logs),
                                 threat |-> threat]
                           ELSE observed
        /\ UNCHANGED <<threatAlerts, sweeps, monitorVars, chain, now, delivered, userWallets, addTasks,
                       stopTasks, apiCalls, providerEvents>>

\* The Alert handleThreatDetected sends for an enhanced threat.
Alert(t, enhancedThreat, aiAnalysis) ==
    [walletAddress |-> t.address, userId |-> t.userId,
     signature |-> enhancedThreat.signature, source |-> enhancedThreat.source,
     type |-> enhancedThreat.type, riskScore |-> enhancedThreat.riskScore,
     baseScore |-> t.basicThreat.riskScore, threats |-> enhancedThreat.threats,
     enriched |-> ~aiAnalysis.null]

\* threatAlerts.set(alertId, ...) with alertId = `${walletAddress}-${Date.now()}`:
\* the record stored under that alertId before, if any, is replaced.
StoreAlert(t, enhancedThreat) ==
    {r \in threatAlerts : r.alertId # <<t.address, now>>}
        \cup {[alertId |-> <<t.address, now>>, userId |-> t.userId,
                riskScore |-> enhancedThreat.riskScore,
                signature |-> enhancedThreat.signature]}

\* handleThreatDetected resumed with the enrichment's answer: the threat is
\* combined with it and the Alert is sent.  sendOk: the first send of
\* sendWithOctopus succeeds; when it fails, sendWithOctopus sends the message
\* again as plain text (fallbackOk: that send succeeds).
DeliverThreat(i, aiAnalysis, sendOk) ==
    LET t == threatTasks[i]
        enhancedThreat == combineAnalysis(t.basicThreat, aiAnalysis)
    IN  /\ threatTasks' = RemoveAt(threatTasks, i)
        /\ threatAlerts' = StoreAlert(t, enhancedThreat)
        /\ \E fallbackOk \in IF sendOk THEN {TRUE} ELSE BOOLEAN :
              /\ delivered' = IF sendOk \/ fallbackOk
                                 THEN Append(delivered, Alert(t, enhancedThreat, aiAnalysis))
                                 ELSE delivered
              /\ last' = [op |-> "threatDetected", address |-> t.address,
                          sent |-> sendOk \/ fallbackOk,
                          sends |-> IF sendOk THEN 1 ELSE 2]
        /\ UNCHANGED <<walletProfiles, sweeps, observed, monitorVars, chain, now, fetches, userWallets, addTasks,
                       stopTasks, apiCalls, providerEvents>>

\* ThreatDetected sending the Alert only when the enrichment gave an analysis.
ThreatDetectedWhenEnriched(i, response, sendOk) ==
    LET t == threatTasks[i]
        aiAnalysis == getAIAnalysis(response)
        enhancedThreat == combineAnalysis(t.basicThreat, aiAnalysis)
    IN  /\ ~aiAnalysis.null
        /\ threatTasks' = RemoveAt(threatTasks, i)
        /\ threatAlerts' = StoreAlert(t, enhancedThreat)
        /\ \E fallbackOk \in IF sendOk THEN {TRUE} ELSE BOOLEAN :
              /\ delivered' = IF sendOk \/ fallbackOk
                                 THEN Append(delivered, Alert(t, enhancedThreat, aiAnalysis))
                                 ELSE delivered
              /\ last' = [op |-> "threatDetected", address |-> t.address,
                          sent |-> sendOk \/ fallbackOk,
                          sends |-> IF sendOk THEN 1 ELSE 2]
        /\ observed' = IF observed.on
                           THEN [on |-> TRUE, response |-> response,
                                 aiAnalysis |-> aiAnalysis,
                                 basicThreat |-> t.basicThreat,
                                 enhancedThreat |-> enhancedThreat,
                                 knownThreats |-> matchKnownThreats(enhancedThreat.threats)]
                           ELSE observed
        /\ UNCHANGED <<walletProfiles, sweeps, monitorVars, chain, now, fetches, userWallets, addTasks,
                       stopTasks, apiCalls, providerEvents>>

\* handleThreatDetected resumed with the enrichment service's response: the
\* response is read, the threat is combined with it and the Alert is sent.
ThreatDetected(i, response, sendOk) ==
    LET t == threatTasks[i]
        aiAnalysis == getAIAnalysis(response)
        enhancedThreat == combineAnalysis(t.basicThreat, aiAnalysis)
    IN  /\ threatTasks' = RemoveAt(threatTasks, i)
        /\ threatAlerts' = StoreAlert(t, enhancedThreat)
        /\ \E fallbackOk \in IF sendOk THEN {TRUE} ELSE BOOLEAN :
              /\ delivered' = IF sendOk \/ fallbackOk
                                 THEN Append(delivered, Alert(t, enhancedThreat, aiAnalysis))
                                 ELSE delivered
              /\ last' = [op |-> "threatDetected", address |-> t.address,
                          sent |-> sendOk \/ fallbackOk,
                          sends |-> IF sendOk THEN 1 ELSE 2]
        /\ observed' = IF observed.on
                           THEN [on |-> TRUE, response |-> response,
                                 aiAnalysis |-> aiAnalysis,
                                 basicThreat |-> t.basicThreat,
                                 enhancedThreat |-> enhancedThreat,
                                 knownThreats |-> matchKnownThreats(enhancedThreat.threats)]
                           ELSE observed
        /\ UNCHANGED <<walletProfiles, sweeps, monitorVars, chain, now, fetches, userWallets, addTasks,
                       stopTasks, apiCalls, providerEvents>>

\* The threat performHealthCheck raises for an account that is gone.
HealthThreat ==
    [null |-> FALSE, type |-> "CRITICAL", source |-> "Health Check", riskScore |-> 90,
     threats |-> <<"Account no longer exists - possible drain">>, signature |-> "none"]

\* PeriodicReset resetting from 5 minutes on (timeSinceLastCheck >= 300000).
PeriodicResetFromFive(registry, b) ==
    IF now - registry[b].lastCheck >= ResetMinutes
       THEN [registry EXCEPT ![b].transactionCount = 0, ![b].lastCheck = now]
       ELSE registry

\* performPeriodicChecks at wallet b: the rolling counter is reset when the
\* last reset is more than 5 minutes old.
PeriodicReset(registry, b) ==
    IF now - registry[b].lastCheck > ResetMinutes
       THEN [registry EXCEPT ![b].transactionCount = 0, ![b].lastCheck = now]
       ELSE registry

\* The run of performPeriodicChecks that has come to wallet b and awaits its
\* getAccountInfo; order: the wallets the run came to before, in order.
SweepAt(visited, b, failed, order) ==
    [visited |-> visited \cup {b}, address |-> b, detached |-> FALSE,
     walletInfo |-> Null, failed |-> failed, order |-> Append(order, b)]

\* The interval timer fires: performPeriodicChecks runs up to the await of its
\* first health check.  (The Map is iterated in insertion order, which the
\* model does not keep: any registered wallet not yet visited may come next.)
PeriodicChecks ==
    LET registered == {a \in Addresses : ~monitoredWallets[a].null}
    IN  /\ timers > 0
        /\ Len(sweeps) < MaxSweeps
        /\ providerEvents < MaxEvents
        /\ providerEvents' = providerEvents + 1
        /\ IF registered = {}
              THEN /\ last' = [op |-> "periodicChecks", done |-> TRUE, next |-> "none"]
                   /\ UNCHANGED <<monitoredWallets, sweeps>>
              ELSE \E b \in registered :
                   /\ monitoredWallets' = PeriodicReset(monitoredWallets, b)
                   /\ sweeps' = Append(sweeps, SweepAt({}, b, {}, << >>))
                   /\ last' = [op |-> "periodicChecks", done |-> FALSE, next |-> b]
        /\ UNCHANGED <<threatAlerts, walletProfiles, observed, threatCallbacks, isMonitoring, timers, subscriptions,
                       nextSubscriptionId, chain, now, fetches, threatTasks, delivered,
                       userWallets, addTasks, stopTasks, apiCalls>>

\* RecordExistence leaving the status as it was.
RecordExistenceNever(walletInfo, accountInfo) == walletInfo

\* walletInfo.hadAccount = !!accountInfo
RecordExistence(walletInfo, accountInfo) ==
    [walletInfo EXCEPT !.hadAccount = IF accountInfo.null THEN "false" ELSE "true"]

\* ExistenceLost taking an account never seen for one that was there.
ExistenceLostUnlessKnown(walletInfo, accountInfo) ==
    accountInfo.null /\ walletInfo.hadAccount # "false"

\* if (!accountInfo && walletInfo.hadAccount): hadAccount is undefined until
\* the first health check of the entry has recorded what it found.
ExistenceLost(walletInfo, accountInfo) ==
    accountInfo.null /\ walletInfo.hadAccount = "true"

\* HealthCheckDone with a rejected lookup ending the run of performPeriodicChecks.
HealthCheckDoneAborting(i, lookupOk) ==
    LET t == sweeps[i]
        a == t.address
        walletInfo == IF t.detached THEN t.walletInfo ELSE monitoredWallets[a]
        accountInfo == AccountInfoOf(chain[a])
        threat == IF lookupOk /\ ExistenceLost(walletInfo, accountInfo)
                     THEN HealthThreat ELSE Null
        calls == ThreatCalls(a, threat, 1)
        registry == IF lookupOk
                       THEN [monitoredWallets EXCEPT ![a] =
                               RecordExistence(walletInfo, accountInfo)]
                       ELSE monitoredWallets
        others == IF ~lookupOk THEN sweeps
                  ELSE IF monitoredWallets[a].null THEN Reinserted(sweeps, a)
                  ELSE IF t.detached THEN Detached(sweeps, a)
                  ELSE sweeps
        visited == others[i].visited
        failed == IF lookupOk THEN t.failed ELSE t.failed \cup {a}
        rest == IF lookupOk
                   THEN {b \in Addresses : ~registry[b].null /\ b \notin visited}
                   ELSE {}
    IN  /\ Len(threatTasks) + Len(delivered) + Len(calls) <= MaxAlerts
        /\ threatTasks' = threatTasks \o calls
        /\ walletProfiles' = ProfilesAfter(walletProfiles, calls)
        /\ IF rest = {}
              THEN /\ monitoredWallets' = registry
                   /\ sweeps' = RemoveAt(others, i)
                   /\ last' = [op |-> "healthCheck", address |-> a, error |-> ~lookupOk,
                               raised |-> ~threat.null, alerts |-> Len(calls),
                               hadAccount |-> walletInfo.hadAccount,
                               done |-> TRUE, checked |-> visited, failed |-> failed,
                               order |-> t.order, detached |-> t.detached,
                               next |-> "none"]
              ELSE \E b \in rest :
                   /\ monitoredWallets' = PeriodicReset(registry, b)
                   /\ sweeps' = [others EXCEPT ![i] = SweepAt(visited, b, failed, t.order)]
                   /\ last' = [op |-> "healthCheck", address |-> a, error |-> ~lookupOk,
                               raised |-> ~threat.null, alerts |-> Len(calls),
                               hadAccount |-> walletInfo.hadAccount,
                               done |-> FALSE, checked |-> visited, failed |-> failed,
                               order |-> t.order, detached |-> t.detached,
                               next |-> b]
        /\ UNCHANGED <<threatAlerts, observed, threatCallbacks, isMonitoring, timers, subscriptions,
                       nextSubscriptionId, chain, now, fetches, delivered, userWallets,
                       addTasks, stopTasks, apiCalls, providerEvents>>

\* performHealthCheck resumed after getAccountInfo.  lookupOk: the lookup
\* resolved (with the account as the chain has it); otherwise it rejected and
\* the catch logs the error.  Then performPeriodicChecks goes on to its next
\* wallet, up to the await of that health check, or ends.
HealthCheckDone(i, lookupOk) ==
    LET t == sweeps[i]
        a == t.address
        walletInfo == IF t.detached THEN t.walletInfo ELSE monitoredWallets[a]
        accountInfo == AccountInfoOf(chain[a])
        threat == IF lookupOk /\ ExistenceLost(walletInfo, accountInfo)
                     THEN HealthThreat ELSE Null
        calls == ThreatCalls(a, threat, 1)
        registry == IF lookupOk
                       THEN [monitoredWallets EXCEPT ![a] =
                               RecordExistence(walletInfo, accountInfo)]
                       ELSE monitoredWallets
        others == IF ~lookupOk THEN sweeps
                  ELSE IF monitoredWallets[a].null THEN Reinserted(sweeps, a)
                  ELSE IF t.detached THEN Detached(sweeps, a)
                  ELSE sweeps
        visited == others[i].visited
        failed == IF lookupOk THEN t.failed ELSE t.failed \cup {a}
        rest == {b \in Addresses : ~registry[b].null /\ b \notin visited}
    IN  /\ Len(threatTasks) + Len(delivered) + Len(calls) <= MaxAlerts
        /\ threatTasks' = threatTasks \o calls
        /\ walletProfiles' = ProfilesAfter(walletProfiles, calls)
        /\ IF rest = {}
              THEN /\ monitoredWallets' = registry
                   /\ sweeps' = RemoveAt(others, i)
                   /\ last' = [op |-> "healthCheck", address |-> a, error |-> ~lookupOk,
                               raised |-> ~threat.null, alerts |-> Len(calls),
                               hadAccount |-> walletInfo.hadAccount,
                               done |-> TRUE, checked |-> visited, failed |-> failed,
                               order |-> t.order, detached |-> t.detached,
                               next |-> "none"]
              ELSE \E b \in rest :
                   /\ monitoredWallets' = PeriodicReset(registry, b)
                   /\ sweeps' = [others EXCEPT ![i] = SweepAt(visited, b, failed, t.order)]
                   /\ last' = [op |-> "healthCheck", address |-> a, error |-> ~lookupOk,
                               raised |-> ~threat.null, alerts |-> Len(calls),
                               hadAccount |-> walletInfo.hadAccount,
                               done |-> FALSE, checked |-> visited, failed |-> failed,
                               order |-> t.order, detached |-> t.detached,
                               next |-> b]
        /\ UNCHANGED <<threatAlerts, observed, threatCallbacks, isMonitoring, timers, subscriptions,
                       nextSubscriptionId, chain, now, fetches, delivered, userWallets,
                       addTasks, stopTasks, apiCalls, providerEvents>>

Tick ==
    /\ now < MaxTime
    /\ now' = now + 1
    /\ last' = [op |-> "tick"]
    /\ UNCHANGED <<threatAlerts, walletProfiles, sweeps, observed, monitorVars, chain, fetches, threatTasks, delivered,
                   userWallets, addTasks, stopTasks, apiCalls, providerEvents>>

(***************************************************************************)
(* The bot: handleAddWallet.                                               *)
(***************************************************************************)
InList(list, a) == \E k \in 1..Len(list) : list[k] = a

\* handleAddWallet up to its await of the "Adding Wallet" message.
AddWalletBegin(userId, a) ==
    /\ apiCalls < MaxCalls
    /\ apiCalls' = apiCalls + 1
    /\ IF ~IsValidKey(a) THEN
            /\ last' = [op |-> "addWallet", address |-> a, userId |-> userId,
                        ret |-> "invalid"]
            /\ UNCHANGED addTasks
       ELSE IF InList(userWallets[userId], a) THEN
            /\ last' = [op |-> "addWallet", address |-> a, userId |-> userId,
                        ret |-> "already"]
            /\ UNCHANGED addTasks
       ELSE
            /\ Len(addTasks) < MaxAddTasks
            /\ addTasks' = Append(addTasks, [userId |-> userId, address |-> a])
            /\ last' = [op |-> "addWallet", address |-> a, userId |-> userId,
                        ret |-> "adding"]
    /\ UNCHANGED <<threatAlerts, walletProfiles, sweeps, observed, monitorVars, chain, now, fetches, threatTasks, delivered,
                   userWallets, stopTasks, providerEvents>>

\* handleAddWallet resumed: the wallet is pushed on the user's list and
\* monitoring is started.
AddWalletResume(i, outcome) ==
    LET t == addTasks[i]
    IN  /\ nextSubscriptionId + 2 <= MaxSubs
        /\ addTasks' = RemoveAt(addTasks, i)
        /\ userWallets' = [userWallets EXCEPT ![t.userId] = Append(@, t.address)]
        /\ startMonitoring(t.address, t.userId, outcome)
        /\ last' = [op |-> "addWalletResume", address |-> t.address,
                    userId |-> t.userId,
                    ret |-> startMonitoringResult(t.address, outcome)]
        /\ sweeps' = SweepsAfterStart(t.address)
        /\ UNCHANGED <<threatAlerts, walletProfiles, observed, chain, now, fetches, threatTasks, delivered, stopTasks,
                       apiCalls, providerEvents>>

\* handleMonitorControl(ctx, 'start'): startMonitoring for every wallet of the
\* user's list that the registry does not have.  (A bound of the model: at
\* most one wallet of the list is not in the registry.)
MonitorControlStart(userId, outcome) ==
    LET list == userWallets[userId]
        idle == {k \in 1..Len(list) : monitoredWallets[list[k]].null}
    IN  /\ apiCalls < MaxCalls
        /\ apiCalls' = apiCalls + 1
        /\ Cardinality(idle) <= 1
        /\ nextSubscriptionId + 2 <= MaxSubs
        /\ IF idle = {}
              THEN /\ UNCHANGED <<monitorVars, sweeps>>
                   /\ last' = [op |-> "monitorControl", userId |-> userId, started |-> 0]
              ELSE LET a == list[CHOOSE k \in idle : TRUE]
                   IN  /\ startMonitoring(a, userId, outcome)
                       /\ sweeps' = SweepsAfterStart(a)
                       /\ last' = [op |-> "monitorControl", userId |-> userId,
                                   started |-> IF startMonitoringResult(a, outcome)
                                                  THEN 1 ELSE 0]
        /\ UNCHANGED <<threatAlerts, walletProfiles, observed, providerEvents, chain, now, fetches, threatTasks,
                       delivered, userWallets, addTasks, stopTasks>>

(***************************************************************************)
(* The program.                                                            *)
(***************************************************************************)
\* The whole program.
Next ==
    \/ \E a \in Addresses, u \in Users, o \in SubscribeOutcomes : Watch(a, u, o)
    \/ \E a \in Addresses, ok \in BOOLEAN : Unwatch(a, ok)
    \/ \E i \in 1..Len(stopTasks), ok \in BOOLEAN : UnwatchResume(i, ok)
    \/ \E u \in Users, a \in Addresses : AddWalletBegin(u, a)
    \/ \E i \in 1..Len(addTasks), o \in SubscribeOutcomes : AddWalletResume(i, o)
    \/ \E u \in Users, o \in SubscribeOutcomes : MonitorControlStart(u, o)
    \/ \E a \in ValidAddrs, c \in ChainStates : AccountChange(a, c)
    \/ \E a \in ValidAddrs, e \in LogCatalogue : LogEvent(a, e)
    \/ \E i \in 1..Len(fetches), tx \in Transactions \cup {FetchError} : FetchDone(i, tx)
    \/ \E i \in 1..Len(threatTasks), ai \in AiResults, ok \in BOOLEAN : DeliverThreat(i, ai, ok)
    \/ PeriodicChecks
    \/ \E i \in 1..Len(sweeps), ok \in BOOLEAN : HealthCheckDone(i, ok)
    \/ Tick

Spec == Init /\ [][Next]_vars

\* The wallet lifecycle: the registry, the callback table, the provider's
\* subscriptions and the users' wallet lists, with no provider event.
NextRegistry ==
    \/ \E a \in Addresses, u \in Users, o \in SubscribeOutcomes : Watch(a, u, o)
    \/ \E a \in Addresses, ok \in BOOLEAN : Unwatch(a, ok)
    \/ \E i \in 1..Len(stopTasks), ok \in BOOLEAN : UnwatchResume(i, ok)
    \/ \E u \in Users, a \in Addresses : AddWalletBegin(u, a)
    \/ \E i \in 1..Len(addTasks), o \in SubscribeOutcomes : AddWalletResume(i, o)

SpecRegistry == Init /\ [][NextRegistry]_vars

\* The alert path of one wallet: it is watched (by either user, possibly
\* twice), the provider reports events and the threats are delivered.
NextAlerts ==
    \/ \E u \in Users : Watch("A1", u, "ok")
    \/ \E c \in ChainStates : AccountChange("A1", c)
    \/ \E e \in LogCatalogue : LogEvent("A1", e)
    \/ \E i \in 1..Len(fetches), tx \in Transactions \cup {FetchError} : FetchDone(i, tx)
    \/ \E i \in 1..Len(threatTasks), ai \in AiResults, ok \in BOOLEAN : DeliverThreat(i, ai, ok)

SpecAlerts == Init /\ [][NextAlerts]_vars

\* The scorers on every input of the model: wallet A1 is watched by u1 and has
\* seen some transactions in its window (as many as bring the rolling counter
\* near the bound of the frequency rule); one provider event is evaluated and
\* the evaluation is observed.  The account scorer reads neither the counter
\* nor the clock, so an account that is not funded is paired with one value
\* of them.
EvalInit ==
    /\ \E count \in (MaxTxCount - 2)..(MaxTxCount - 1) :
          monitoredWallets = [a \in Addresses |->
              IF a = "A1"
                 THEN [null |-> FALSE, userId |-> "u1", lastCheck |-> 0,
                       transactionCount |-> count, subscriptionId |-> 0,
                       logsSubscriptionId |-> 1, hadAccount |-> "undefined"]
                 ELSE Null]
    /\ threatCallbacks = [a \in Addresses |-> IF a = "A1" THEN Callback("u1") ELSE Null]
    /\ isMonitoring = TRUE
    /\ timers = 1
    /\ subscriptions = {[id |-> 0, kind |-> "account", address |-> "A1"],
                        [id |-> 1, kind |-> "logs", address |-> "A1"]}
    /\ nextSubscriptionId = 2
    /\ now \in 0..MaxElapsed
    /\ \E c \in ChainStates :
          /\ c # "funded" => (now = 0 /\ monitoredWallets["A1"].transactionCount = MaxTxCount - 1)
          /\ chain = [a \in ValidAddrs |-> IF a = "A1" THEN c ELSE "funded"]
    /\ fetches = << >>
    /\ threatTasks = << >>
    /\ delivered = << >>
    /\ userWallets = [u \in Users |-> IF u = "u1" THEN <<"A1">> ELSE << >>]
    /\ addTasks = << >>
    /\ stopTasks = << >>
    /\ sweeps = << >>
    /\ threatAlerts = {}
    /\ walletProfiles = [a \in Addresses |-> Null]
    /\ apiCalls = 1
    /\ providerEvents = MaxEvents - 1
    /\ last = [op |-> "init"]
    /\ observed = [on |-> TRUE]

NextEval ==
    \/ \E c \in ChainStates : AccountChange("A1", c)
    \/ \E l \in LogLists : LogEvent("A1", [signature |-> "sig1", logs |-> l])
    \/ \E i \in 1..Len(fetches), tx \in Transactions \cup {FetchError} : FetchDone(i, tx)

SpecEval == EvalInit /\ [][NextEval]_vars

\* The enrichment of every threat the scorers raise: wallet A1 is watched by
\* u1, one threat raised for it waits in handleThreatDetected for the
\* enrichment service, and the handler's outcome is observed.
MergeInit ==
    /\ \E count \in {1, MaxTxCount}, l \in LogLists, tx \in Transactions,
          c \in ChainStates, fromLogs \in BOOLEAN :
          LET walletInfo == [null |-> FALSE, userId |-> "u1", lastCheck |-> 0,
                             transactionCount |-> count, subscriptionId |-> 0,
                             logsSubscriptionId |-> 1, hadAccount |-> "undefined"]
              threat == IF fromLogs
                           THEN analyzeTransaction(walletInfo, 0, tx,
                                    [signature |-> "sig1", logs |-> l])
                           ELSE analyzeAccountChange(AccountInfoOf(c))
          IN  /\ ~threat.null
              /\ monitoredWallets = [a \in Addresses |->
                     IF a = "A1" THEN walletInfo ELSE Null]
              /\ threatTasks = <<[address |-> "A1", userId |-> "u1",
                                  basicThreat |-> threat]>>
              /\ walletProfiles = updateWalletProfile(
                     [a \in Addresses |-> Null], "A1", threat.threats)
    /\ threatCallbacks = [a \in Addresses |-> IF a = "A1" THEN Callback("u1") ELSE Null]
    /\ isMonitoring = TRUE
    /\ timers = 1
    /\ subscriptions = {[id |-> 0, kind |-> "account", address |-> "A1"],
                        [id |-> 1, kind |-> "logs", address |-> "A1"]}
    /\ nextSubscriptionId = 2
    /\ chain = [a \in ValidAddrs |-> "funded"]
    /\ now = 0
    /\ fetches = << >>
    /\ delivered = << >>
    /\ userWallets = [u \in Users |-> IF u = "u1" THEN <<"A1">> ELSE << >>]
    /\ addTasks = << >>
    /\ stopTasks = << >>
    /\ sweeps = << >>
    /\ threatAlerts = {}
    /\ apiCalls = 1
    /\ providerEvents = 1
    /\ last = [op |-> "init"]
    /\ observed = [on |-> TRUE]

NextMerge ==
    \E i \in 1..Len(threatTasks), r \in AiResponses, ok \in BOOLEAN :
        ThreatDetected(i, r, ok)

SpecMerge == MergeInit /\ [][NextMerge]_vars

\* The answers of the enrichment that leave no analysis.
EnrichmentAbsent == {r \in AiResponses : getAIAnalysis(r).null}

\* handleThreatDetected resumed with no analysis.
DeliverUnenriched ==
    \E i \in 1..Len(threatTasks), r \in EnrichmentAbsent, ok \in BOOLEAN :
        ThreatDetected(i, r, ok)

\* One threat of at most two findings waits for the enrichment.
DeliverInit == MergeInit /\ Len(threatTasks[1].basicThreat.threats) <= 2

\* The enrichment of a threat, where a request that leaves no analysis still
\* ends: without a key no request is made, and axios gives the request up
\* after its timeout of 10 seconds.
SpecDeliver == DeliverInit /\ [][NextMerge]_vars /\ WF_vars(DeliverUnenriched)

\* The periodic checks and the evaluations in flight: wallets A1 (of u1) and A2
\* (of u2) are watched; A1 is gone from the chain and may have been seen
\* funded by an earlier health check; the timer fires, a transaction of A1 is
\* logged, and wallets are unwatched while checks and fetches are under way.
SweepInit ==
    /\ \E h \in {"undefined", "true"} :
          monitoredWallets = [a \in Addresses |->
              CASE a = "A1" -> [null |-> FALSE, userId |-> "u1", lastCheck |-> 0,
                                transactionCount |-> 1, subscriptionId |-> 0,
                                logsSubscriptionId |-> 1, hadAccount |-> h]
                [] a = "A2" -> [null |-> FALSE, userId |-> "u2", lastCheck |-> 0,
                                transactionCount |-> 0, subscriptionId |-> 2,
                                logsSubscriptionId |-> 3, hadAccount |-> "undefined"]
                [] OTHER -> Null]
    /\ threatCallbacks = [a \in Addresses |->
          CASE a = "A1" -> Callback("u1") [] a = "A2" -> Callback("u2") [] OTHER -> Null]
    /\ isMonitoring = TRUE
    /\ timers = 1
    /\ subscriptions = {[id |-> 0, kind |-> "account", address |-> "A1"],
                        [id |-> 1, kind |-> "logs", address |-> "A1"],
                        [id |-> 2, kind |-> "account", address |-> "A2"],
                        [id |-> 3, kind |-> "logs", address |-> "A2"]}
    /\ nextSubscriptionId = 4
    /\ chain = [a \in ValidAddrs |-> IF a = "A1" THEN "absent" ELSE "funded"]
    /\ now \in {0, ResetMinutes, ResetMinutes + 1}
    /\ fetches = << >>
    /\ threatTasks = << >>
    /\ delivered = << >>
    /\ userWallets = [u \in Users |-> IF u = "u1" THEN <<"A1">> ELSE <<"A2">>]
    /\ addTasks = << >>
    /\ stopTasks = << >>
    /\ sweeps = << >>
    /\ threatAlerts = {}
    /\ walletProfiles = [a \in Addresses |-> Null]
    /\ apiCalls = MaxCalls - 1
    /\ providerEvents = 0
    /\ last = [op |-> "init"]
    /\ observed = [on |-> FALSE]

NextSweep ==
    \/ PeriodicChecks
    \/ \E i \in 1..Len(sweeps), ok \in BOOLEAN : HealthCheckDone(i, ok)
    \/ \E a \in {"A1", "A2"}, ok \in BOOLEAN : Unwatch(a, ok)
    \/ \E i \in 1..Len(stopTasks), ok \in BOOLEAN : UnwatchResume(i, ok)
    \/ \E e \in {x \in LogCatalogue : x.signature = "sig2"} : LogEvent("A1", e)
    \/ \E i \in 1..Len(fetches), tx \in {t \in Transactions : t.null \/ t.meta.null} :
          FetchDone(i, tx)

SpecSweep == SweepInit /\ [][NextSweep]_vars

\* The behaviour profile of one wallet: A1 is watched by u1, transactions of
\* it are logged, fetched and evaluated, the threats raised are enriched (by a
\* service with no key, or one that answers) and sent, and the wallet is
\* unwatched.
ProfileResponses ==
    {r \in AiResponses :
        r.kind = "disabled" \/ (r.kind = "json" /\ r.value.confidence > 80 /\ r.value.threats = << >>)}

NextProfile ==
    \/ Watch("A1", "u1", "ok")
    \/ \E e \in LogCatalogue : LogEvent("A1", e)
    \/ \E i \in 1..Len(fetches) :
          FetchDone(i, [null |-> FALSE, meta |-> CleanMeta, accountKeys |-> 2])
    \/ \E i \in 1..Len(threatTasks), r \in ProfileResponses : ThreatDetected(i, r, TRUE)
    \/ \E ok \in BOOLEAN : Unwatch("A1", ok)
    \/ \E i \in 1..Len(stopTasks), ok \in BOOLEAN : UnwatchResume(i, ok)

SpecProfile == Init /\ [][NextProfile]_vars

\* A subscription that fails once: the users add their wallets while the
\* provider may refuse a subscription; from then on the provider answers every
\* call, the timer fires and the users may unwatch a wallet and start their
\* monitoring again.  Every handler that has begun runs on, the timer fires
\* when it is due.
RetryStartWallet ==
    \E u \in Users, a \in ValidAddrs : (u = "u1") = (a = "A1") /\ AddWalletBegin(u, a)

RetryStartResume ==
    \E i \in 1..Len(addTasks), o \in SubscribeOutcomes : AddWalletResume(i, o)

RetryHealthCheck == \E i \in 1..Len(sweeps) : HealthCheckDone(i, TRUE)

RetryStopResume == \E i \in 1..Len(stopTasks) : UnwatchResume(i, TRUE)

NextRetry ==
    \/ RetryStartWallet
    \/ RetryStartResume
    \/ \E a \in ValidAddrs : Unwatch(a, TRUE)
    \/ RetryStopResume
    \/ \E u \in Users : MonitorControlStart(u, "ok")
    \/ PeriodicChecks
    \/ RetryHealthCheck

SpecRetry ==
    /\ Init
    /\ [][NextRetry]_vars
    /\ WF_vars(RetryStartResume)
    /\ WF_vars(RetryStopResume)
    /\ WF_vars(PeriodicChecks)
    /\ WF_vars(RetryHealthCheck)

(***************************************************************************)
(* The claims.                                                             *)
(***************************************************************************)
\* C1: when startMonitoring is called twice in a row on the same valid
\* address, the second call leaves the registry entry (and with it the owner),
\* the callback and the provider's subscriptions as the first call made them:
\* one entry, no new subscription, nothing replaced.
C1_SecondWatchChangesNothing ==
    [][(/\ last.op = "startMonitoring" /\ last.ret
        /\ last'.op = "startMonitoring" /\ last'.address = last.address)
       => /\ monitoredWallets' = monitoredWallets
          /\ threatCallbacks' = threatCallbacks
          /\ subscriptions' = subscriptions]_vars

\* C2: for one wallet and one transaction signature at most one Alert is
\* delivered.
C2_OneAlertPerSignature ==
    \A i, j \in 1..Len(delivered) :
        (/\ i < j
         /\ delivered[i].source = "Transaction Analysis"
         /\ delivered[j].source = "Transaction Analysis"
         /\ delivered[i].walletAddress = delivered[j].walletAddress)
        => delivered[i].signature # delivered[j].signature

\* C3: stopMonitoring on an address that is not watched raises no error, makes
\* no unsubscribe call and leaves the registry, the callback table, the
\* subscriptions and every other wallet's entry as they were.
C3_StopUnwatchedIsNoOp ==
    [][(last'.op = "stopMonitoring" /\ monitoredWallets[last'.address].null)
       => /\ ~last'.error
          /\ last'.unsubscribed = {}
          /\ UNCHANGED <<monitoredWallets, threatCallbacks, subscriptions,
                         nextSubscriptionId, isMonitoring, timers, stopTasks,
                         userWallets>>]_vars

\* C3's case: stopMonitoring has just run on an address that is not watched
\* while another wallet is watched.
C3_Witness ==
    /\ last.op = "stopMonitoring"
    /\ ~last.watched
    /\ \E a \in Addresses : a # last.address /\ ~monitoredWallets[a].null

\* C4: startMonitoring on an invalid address returns false and handleAddWallet
\* on one answers with the invalid-address message; neither creates a registry
\* entry, a callback, a subscription, a timer or an entry of a user's list.
C4_InvalidAddressCreatesNothing ==
    [][(last'.op \in {"startMonitoring", "addWallet"} /\ ~IsValidKey(last'.address))
       => /\ last'.ret = IF last'.op = "startMonitoring" THEN FALSE ELSE "invalid"
          /\ UNCHANGED <<monitoredWallets, threatCallbacks, subscriptions,
                         nextSubscriptionId, isMonitoring, timers, userWallets,
                         addTasks, stopTasks>>]_vars

\* C4's case: startMonitoring has just refused an invalid address while a
\* wallet is watched.
C4_Witness ==
    /\ last.op = "startMonitoring"
    /\ ~IsValidKey(last.address)
    /\ last.ret = FALSE
    /\ \E a \in Addresses : ~monitoredWallets[a].null

\* C5: an account-change event with accountInfo = null for a wallet that was
\* funded raises exactly one Alert; it is CRITICAL, its reasons contain
\* "Account closed or emptied" and its score is at least 80.
C5_ClosedAccountAlert ==
    (last.op = "accountChange" /\ last.previous = "funded"
        /\ chain[last.address] = "absent" /\ ~monitoredWallets[last.address].null)
    => /\ last.alerts = 1
       /\ Len(threatTasks) >= 1
       /\ LET t == threatTasks[Len(threatTasks)].basicThreat
          IN  /\ t.type = "CRITICAL"
              /\ \E k \in 1..Len(t.threats) : t.threats[k] = "Account closed or emptied"
              /\ t.riskScore >= 80

\* C6: an account-change event that reports zero lamports for a wallet that
\* was funded is scored at least 80 and the threat it raises is CRITICAL.
C6_DrainedAccountCritical ==
    (last.op = "accountChange" /\ last.previous = "funded"
        /\ ~observed.accountInfo.null /\ observed.accountInfo.lamports = 0)
    => /\ observed.riskScore >= 80
       /\ ~observed.threat.null
       /\ observed.threat.type = "CRITICAL"
       /\ observed.threat.riskScore >= 80
       /\ last.alerts >= 1

\* C6's case: a funded wallet has just been reported with zero lamports.
C6_Witness ==
    /\ last.op = "accountChange"
    /\ last.previous = "funded"
    /\ ~observed.accountInfo.null
    /\ observed.accountInfo.lamports = 0
    /\ observed.threat.riskScore = 80

\* C7: an account-change event for a wallet whose account was already absent
\* or already at zero lamports, and still is, raises no finding and no Alert.
C7_NoAlertWithoutStateChange ==
    (last.op = "accountChange" /\ last.previous \in {"zero", "absent"}
        /\ chain[last.address] \in {"zero", "absent"})
    => last.alerts = 0

\* C8: no emitted threat and no delivered Alert carries a score above 100.
C8_ScoreAtMost100 ==
    /\ \A i \in 1..Len(threatTasks) : threatTasks[i].basicThreat.riskScore <= 100
    /\ \A i \in 1..Len(delivered) :
          delivered[i].riskScore <= 100 /\ delivered[i].baseScore <= 100

\* C9: a transaction evaluation of score at most 40 and an account evaluation
\* of score at most 50 raise no threat and no Alert; every threat on the alert
\* path has a score above the threshold of its source.
C9_AtThresholdNoAlert ==
    /\ (last.op = "transactionLogs" /\ observed.riskScore <= 40)
       => (observed.threat.null /\ last.alerts = 0)
    /\ (last.op = "accountChange" /\ observed.riskScore <= 50)
       => (observed.threat.null /\ last.alerts = 0)
    /\ \A i \in 1..Len(threatTasks) :
          LET t == threatTasks[i].basicThreat
          IN  t.riskScore > (IF t.source = "Transaction Analysis" THEN 40 ELSE 50)

\* C9's case: a transaction has just been evaluated at exactly 40 and raised
\* nothing.
C9_Witness ==
    /\ last.op = "transactionLogs"
    /\ observed.riskScore = 40
    /\ last.alerts = 0

\* The fragments no rule of the scorer looks for.
PlainFragments == {"Program", "success", "Instruction", "MyProgram", "500000"}

\* No line of the log holds a recognized pattern.
NoRecognizedPattern(lines) ==
    \A k \in 1..Len(lines) :
        \A m \in 1..Len(lines[k]) : lines[k][m] \in PlainFragments

\* The fetched transaction shows no structural anomaly: it did not fail, has
\* at most 10 account keys and no balance fell by more than 1000000 lamports.
NoStructuralAnomaly(transaction) ==
    /\ ~transaction.null
    /\ \/ transaction.meta.null
       \/ /\ ~transaction.meta.err
          /\ transaction.accountKeys <= 10
          /\ \A k \in 1..Len(transaction.meta.postBalances) :
                k <= Len(transaction.meta.preBalances)
                => transaction.meta.postBalances[k] - transaction.meta.preBalances[k]
                       >= -1000000

\* The frequency rule applies to the wallet: its rolling counter is above 5
\* and its rate is above 2 transactions per minute.
FrequencyApplies(walletInfo) ==
    /\ walletInfo.transactionCount > 5
    /\ \/ now = walletInfo.lastCheck
       \/ walletInfo.transactionCount > 2 * (now - walletInfo.lastCheck)

\* C10 as stated: a log with no recognized pattern and a transaction with no
\* structural anomaly are scored 0 and never forwarded to the alert path.
C10_PlainScoresZero ==
    (last.op = "transactionLogs" /\ NoRecognizedPattern(observed.logs.logs)
        /\ NoStructuralAnomaly(observed.transaction))
    => (observed.riskScore = 0 /\ observed.threat.null /\ last.alerts = 0)

\* C10: a log with no recognized pattern and a transaction with no structural
\* anomaly are scored 35 when the frequency rule applies to the wallet and 0
\* otherwise, and are never forwarded to the alert path.
C10_PlainScoresFrequencyOnly ==
    (last.op = "transactionLogs" /\ NoRecognizedPattern(observed.logs.logs)
        /\ NoStructuralAnomaly(observed.transaction))
    => /\ observed.riskScore = IF FrequencyApplies(observed.walletInfo) THEN 35 ELSE 0
       /\ observed.threat.null
       /\ last.alerts = 0

\* C10's case: a plain log and a plain transaction have just been evaluated
\* for a wallet the frequency rule applies to.
C10_Witness ==
    /\ last.op = "transactionLogs"
    /\ Len(observed.logs.logs) > 0
    /\ NoRecognizedPattern(observed.logs.logs)
    /\ NoStructuralAnomaly(observed.transaction)
    /\ observed.riskScore = 35
    /\ last.alerts = 0

\* Some line of the log holds both "transfer" and "authority".
HasAuthorityTransferLine(lines) ==
    \E k \in 1..Len(lines) :
        \E m, n \in 1..Len(lines[k]) :
            lines[k][m] \in {"Transfer", "transfer"} /\ lines[k][n] = "authority"

\* The threat list holds the description d.
Lists(threats, d) == \E k \in 1..Len(threats) : threats[k] = d

DrainerScenarioLogs ==
    << <<"Program", "invoke", "SomeDrainerProgram">>,
       <<"Instruction", "approve", "allowance", "500000">> >>

\* C12: the log of the drainer scenario, with its transaction fetched, is
\* evaluated with a score of at least 80 and raises a CRITICAL threat.
C12_DrainerScenarioCritical ==
    (last.op = "transactionLogs" /\ ~observed.transaction.null
        /\ observed.logs.logs = DrainerScenarioLogs)
    => /\ observed.riskScore >= 80
       /\ ~observed.threat.null
       /\ observed.threat.type = "CRITICAL"
       /\ observed.threat.riskScore >= 80
       /\ last.alerts = 1

\* C12's case: the drainer scenario has just been evaluated.
C12_Witness ==
    /\ last.op = "transactionLogs"
    /\ ~observed.transaction.null
    /\ observed.logs.logs = DrainerScenarioLogs
    /\ observed.riskScore >= 80

\* C13: an enrichment result with confidence at most 80 leaves the severity
\* tier of the merged score equal to the tier of the base score.
C13_LowConfidenceKeepsTier ==
    (last.op = "threatDetected" /\ ~observed.aiAnalysis.null
        /\ observed.aiAnalysis.confidence <= 80)
    => Severity(observed.enhancedThreat.riskScore)
          = Severity(observed.basicThreat.riskScore)

\* C14: the merged score is never below the base score; it is above it only
\* as 80 for a match of the threat database or, with a confidence above 80,
\* as 90 for a CRITICAL and 75 for a HIGH opinion of the enrichment; with no
\* enrichment or a confidence of at most 80 the opinion changes nothing.
C14_MergeNeverLowers ==
    last.op = "threatDetected"
    => LET base == observed.basicThreat.riskScore
           merged == observed.enhancedThreat.riskScore
           ai == observed.aiAnalysis
       IN  /\ merged >= base
           /\ (ai.null \/ ai.confidence <= 80)
              => merged = IF observed.knownThreats # {} /\ base < 80 THEN 80 ELSE base
           /\ merged > base
              => \/ observed.knownThreats # {} /\ merged = 80
                 \/ /\ ~ai.null /\ ai.confidence > 80
                    /\ \/ ai.threatLevel = "CRITICAL" /\ merged = 90
                       \/ ai.threatLevel = "HIGH" /\ merged = 75

\* C14's case: an enrichment of confidence 80 that calls the threat CRITICAL
\* has just been merged into a threat of a lower score and left it as it was.
C14_Witness ==
    /\ last.op = "threatDetected"
    /\ ~observed.aiAnalysis.null
    /\ observed.aiAnalysis.confidence = 80
    /\ observed.aiAnalysis.threatLevel = "CRITICAL"
    /\ observed.basicThreat.riskScore < 90
    /\ observed.enhancedThreat.riskScore = observed.basicThreat.riskScore

\* C18: when the enrichment request times out, is answered with a status other
\* than 2xx or is answered with a malformed body, the enrichment result is
\* absent and the Alert is the unenriched one: no AI analysis, the base
\* threat's labels and the base score.
C18_FailedEnrichmentIsAbsent ==
    (last.op = "threatDetected"
        /\ observed.response.kind \in {"timeout", "non2xx", "noChoices", "text", "badJson"})
    => /\ observed.aiAnalysis.null
       /\ observed.enhancedThreat.threats = observed.basicThreat.threats
       /\ observed.enhancedThreat.riskScore = observed.basicThreat.riskScore
       /\ last.sent => ~delivered[Len(delivered)].enriched

\* C16: once stopMonitoring has returned for a watched wallet, whether or not
\* an unsubscribe call failed, the address is in neither the registry nor the
\* callback table.
C16_StopAlwaysRemoves ==
    (/\ last.op \in {"stopMonitoring", "stopMonitoringResume"}
     /\ ~(\E i \in 1..Len(stopTasks) : stopTasks[i].address = last.address))
    => /\ monitoredWallets[last.address].null
       /\ threatCallbacks[last.address].null

\* C17: when the fetch of the transaction fails or returns nothing and the log
\* lines alone score above 40, the log event still raises a threat.
C17_FetchFailureStillEvaluates ==
    (last.op = "transactionLogs" /\ observed.transaction.null
        /\ SumWeights(LogFindings(observed.logs.logs)) > 40)
    => (~observed.threat.null /\ last.alerts >= 1)

\* C15: when a run of performPeriodicChecks ends, every registered wallet has
\* been checked in it, whether or not the lookup of another wallet failed.
C15_SweepSurvivesLookupError ==
    (last.op = "healthCheck" /\ last.done)
    => \A a \in Addresses : ~monitoredWallets[a].null => a \in last.checked

\* C15's case: a run has just ended in which the lookup of one wallet failed
\* and another wallet, still registered, was checked.
C15_Witness ==
    /\ last.op = "healthCheck"
    /\ last.done
    /\ last.failed # {}
    /\ \E a \in last.checked \ last.failed : ~monitoredWallets[a].null

\* C20: an evaluation that was in flight (on the transaction fetch or on the
\* health-check lookup) completes; when the wallet is no longer in the registry
\* no callback is invoked, and a callback is invoked only for a wallet that is
\* in the registry and the callback table.
C20_UnwatchedEvaluationDropped ==
    [][last'.op \in {"transactionLogs", "healthCheck"}
       => /\ monitoredWallets[last'.address].null
             => (last'.alerts = 0 /\ threatTasks' = threatTasks)
          /\ last'.alerts > 0
             => /\ ~monitoredWallets[last'.address].null
                /\ ~threatCallbacks[last'.address].null
          /\ last'.op = "transactionLogs" => Len(fetches') = Len(fetches) - 1]_vars

\* C20's case: a fetch that was in flight when its wallet was unwatched has
\* just completed, raised a threat and dropped it.
C20_Witness ==
    /\ last.op = "transactionLogs"
    /\ last.raised
    /\ last.alerts = 0
    /\ monitoredWallets[last.address].null
    /\ threatCallbacks[last.address].null

\* C19: a log event changes the rolling transaction counter of its wallet only
\* when every earlier log event of the wallet has been evaluated (no fetch of
\* the wallet is awaited) and its Alert delivered (no threat of the wallet is
\* awaiting delivery).
C19_CounterSequencedPerWallet ==
    [][(/\ last'.op = "logEvent"
        /\ monitoredWallets'[last'.address] # monitoredWallets[last'.address])
       => /\ \A i \in 1..Len(fetches) : fetches[i].address # last'.address
          /\ \A i \in 1..Len(threatTasks) : threatTasks[i].address # last'.address]_vars

\* The number of times a run of performPeriodicChecks came to wallet a.
Visits(order, a) == Cardinality({k \in 1..Len(order) : order[k] = a})

\* C21: when a run of performPeriodicChecks ends, it has come to no wallet more
\* than once and to every wallet of the registry exactly once, whatever was
\* watched or unwatched while it ran.
C21_EveryWalletOncePerTick ==
    (last.op = "healthCheck" /\ last.done)
    => /\ \A a \in Addresses : Visits(last.order, a) <= 1
       /\ \A a \in Addresses : ~monitoredWallets[a].null => Visits(last.order, a) = 1

\* Wallet a is in the registry with both subscription handles.
HoldsHandles(a) ==
    /\ ~monitoredWallets[a].null
    /\ monitoredWallets[a].subscriptionId # -1
    /\ monitoredWallets[a].logsSubscriptionId # -1

\* C22: when a run of performPeriodicChecks in which the provider answered
\* ends, every wallet it came to that is in the registry holds both of its
\* subscription handles: a subscription that failed when the wallet was
\* watched has been made by then.
C22_FailedSubscriptionRetried ==
    (last.op = "healthCheck" /\ last.done /\ last.failed = {})
    => \A a \in last.checked : ~monitoredWallets[a].null => HoldsHandles(a)

\* C23: every threat that waits in handleThreatDetected for the enrichment
\* eventually leaves it with an attempt to send its Alert, also when the
\* enrichment gives no analysis.
C23_EveryThreatIsSent ==
    (threatTasks # << >>) ~> (threatTasks = << >> /\ last.op = "threatDetected")

\* C23's case: a threat has just been sent although the enrichment was
\* disabled, timed out or failed.
C23_Witness ==
    /\ last.op = "threatDetected"
    /\ last.sent
    /\ observed.response.kind \in {"disabled", "timeout", "non2xx"}
    /\ observed.aiAnalysis.null
    /\ Len(delivered) = 1
    /\ delivered[1].riskScore = observed.basicThreat.riskScore

\* C24: the severity type of every Alert sent agrees with the Alert's score:
\* CRITICAL for a score of at least 70, WARNING below.
C24_AlertTypeAgreesWithScore ==
    \A k \in 1..Len(delivered) : delivered[k].type = Severity(delivered[k].riskScore)

\* The threats of the health check raised for wallet a that wait for the
\* enrichment.
HealthAlerts(a) ==
    {k \in 1..Len(threatTasks) :
        threatTasks[k].address = a /\ threatTasks[k].basicThreat.source = "Health Check"}

\* C25: a health check whose lookup resolves raises its Alert exactly when the
\* wallet's recorded existence is true and the account is absent, and records
\* the existence it found; a check whose lookup rejects raises nothing.  So an
\* account that went missing once yields one Alert however many ticks find it
\* missing.
C25_OneAlertPerDisappearance ==
    /\ [][(last'.op = "healthCheck" /\ ~last'.detached
              /\ ~monitoredWallets[last'.address].null)
          => IF last'.error
                THEN /\ ~last'.raised
                     /\ monitoredWallets'[last'.address].hadAccount
                           = monitoredWallets[last'.address].hadAccount
                ELSE /\ last'.raised
                           = (/\ monitoredWallets[last'.address].hadAccount = "true"
                              /\ chain[last'.address] = "absent")
                     /\ last'.raised => last'.alerts = 1
                     /\ monitoredWallets'[last'.address].hadAccount
                           = IF chain[last'.address] = "absent" THEN "false" ELSE "true"]_vars
    /\ [](\A a \in ValidAddrs : Cardinality(HealthAlerts(a)) <= 1)

\* C25's case: the Alert for the missing account of a wallet was raised, and a
\* later check has just found the account still missing and raised nothing.
C25_Witness ==
    /\ last.op = "healthCheck"
    /\ ~last.error
    /\ ~last.raised
    /\ chain[last.address] = "absent"
    /\ ~monitoredWallets[last.address].null
    /\ monitoredWallets[last.address].hadAccount = "false"
    /\ Cardinality(HealthAlerts(last.address)) = 1

\* C26: when a run of performPeriodicChecks comes to a registered wallet, it
\* sets the wallet's rolling counter to 0 and its window start to the present
\* time if the window started more than 5 minutes ago, and otherwise leaves
\* both as they were.
C26_ResetExactlyWhenExpired ==
    [][(/\ last'.op \in {"periodicChecks", "healthCheck"}
        /\ ~last'.done
        /\ ~monitoredWallets[last'.next].null)
       => LET before == monitoredWallets[last'.next]
              after == monitoredWallets'[last'.next]
          IN  IF now - before.lastCheck > ResetMinutes
                 THEN after.transactionCount = 0 /\ after.lastCheck = now
                 ELSE /\ after.transactionCount = before.transactionCount
                      /\ after.lastCheck = before.lastCheck]_vars

\* C26's case: a run has just come to a wallet whose window had expired and
\* whose counter was not 0, and reset it.
C26_Witness ==
    /\ last.op \in {"periodicChecks", "healthCheck"}
    /\ ~last.done
    /\ last.next = "A1"
    /\ ~monitoredWallets["A1"].null
    /\ monitoredWallets["A1"].transactionCount = 0
    /\ monitoredWallets["A1"].lastCheck = ResetMinutes + 1

\* C27: when getTransaction finds no transaction, or one without meta, the
\* evaluation of the event holds the analysis-error finding alone: its score
\* is 10.
C27_AbsentMetaScoresAnalysisError ==
    (/\ last.op = "transactionLogs"
     /\ observed.transaction # FetchError
     /\ IF observed.transaction.null THEN TRUE ELSE observed.transaction.meta.null)
    => observed.riskScore = 10

\* profile.totalTransactions of wallet a, 0 when a has no profile.
ProfileTotal(a) ==
    IF walletProfiles[a].null THEN 0 ELSE walletProfiles[a].totalTransactions

\* C28: once every log event of a watched wallet has been evaluated, the total
\* transaction count of the wallet's profile is the number of the log events
\* (which the rolling counter holds, as the wallet has one log subscription and
\* its window is never reset here), whether or not an evaluation crossed the
\* reporting threshold.
C28_ProfileCountsEveryEvent ==
    \A a \in ValidAddrs :
        (/\ ~monitoredWallets[a].null
         /\ \A i \in 1..Len(fetches) : fetches[i].address # a)
        => ProfileTotal(a) = monitoredWallets[a].transactionCount

\* C29: when stopMonitoring has removed a wallet from the registry, no profile
\* of the wallet remains.
C29_ProfileDroppedOnUnwatch ==
    [][(/\ last'.op \in {"stopMonitoring", "stopMonitoringResume"}
        /\ ~monitoredWallets[last'.address].null
        /\ monitoredWallets'[last'.address].null)
       => walletProfiles'[last'.address].null]_vars

\* C30: no label occurs twice in the threat list of an Alert sent.
C30_AlertLabelsDistinct ==
    \A k \in 1..Len(delivered) :
        \A m, n \in 1..Len(delivered[k].threats) :
            delivered[k].threats[m] = delivered[k].threats[n] => m = n

\* C31: whenever the frequency rule computes the per-minute rate (the rolling
\* counter exceeds 5), the window it divides by has a positive length, so the
\* rate is a finite number.
C31_RateWellDefined ==
    (/\ last.op = "transactionLogs"
     /\ ~observed.transaction.null
     /\ ~observed.walletInfo.null
     /\ observed.walletInfo.transactionCount > 5)
    => now - observed.walletInfo.lastCheck > 0

\* C32: at most one send is attempted for an Alert: when the first send fails,
\* no second send of the Alert follows.
C32_AtMostOneSend ==
    last.op = "threatDetected" => last.sends <= 1

\* C38: every threat handled adds exactly one record to the stored alerts and
\* replaces none: the store grows by one with each threat handled.
C38_EveryThreatStored ==
    [][Len(threatTasks') = Len(threatTasks) - 1
       => Cardinality(threatAlerts') = Cardinality(threatAlerts) + 1]_vars

\* C33: no subscription is leaked: every subscription the provider holds is
\* recorded, under its kind, in the registry entry of its address.
C33_NoSubscriptionLeaked ==
    \A s \in subscriptions :
        /\ ~monitoredWallets[s.address].null
        /\ s.kind = "account" => monitoredWallets[s.address].subscriptionId = s.id
        /\ s.kind = "logs" => monitoredWallets[s.address].logsSubscriptionId = s.id

\* C34: when stopMonitoring removes a wallet from the registry without an
\* error, it has unsubscribed every handle the entry stored, handle 0 included.
C34_EveryStoredHandleUnsubscribed ==
    [][\A a \in ValidAddrs :
          (/\ last'.op \in {"stopMonitoring", "stopMonitoringResume"}
           /\ ~monitoredWallets[a].null
           /\ monitoredWallets'[a].null)
          => \A s \in subscriptions' :
                 s.id \notin {monitoredWallets[a].subscriptionId,
                              monitoredWallets[a].logsSubscriptionId}]_vars

\* C35: a wallet on a user's list that is watched with that user as the
\* recipient of its Alerts stays so when another user adds the same address.
C35_ListedWalletKeepsRecipient ==
    [][\A u \in Users, a \in ValidAddrs :
          (/\ InList(userWallets[u], a)
           /\ ~monitoredWallets[a].null
           /\ ~threatCallbacks[a].null
           /\ threatCallbacks[a].userId = u
           /\ HoldsHandles(a)
           /\ last'.op = "addWalletResume"
           /\ last'.userId # u)
          => (/\ ~monitoredWallets'[a].null
              /\ ~threatCallbacks'[a].null
              /\ threatCallbacks'[a].userId = u)]_vars

\* C36: no wallet list holds the same address twice.
C36_NoDuplicateInList ==
    \A u \in Users :
        \A m, n \in 1..Len(userWallets[u]) :
            userWallets[u][m] = userWallets[u][n] => m = n

\* C37: a health check of a wallet whose last-known existence is unset, as it
\* is from startMonitoring until the first check has recorded what it found,
\* raises no Alert, also when it finds the account absent.
C37_FirstCheckRaisesNothing ==
    (last.op = "healthCheck" /\ last.hadAccount = "undefined") => ~last.raised

\* The first check of a wallet found its account absent.
C37_Witness ==
    /\ last.op = "healthCheck"
    /\ ~last.error
    /\ last.hadAccount = "undefined"
    /\ chain[last.address] = "absent"
    /\ ~last.raised

\* C39: at most one periodic sweep timer is ever started.
C39_AtMostOneTimer == timers <= 1

\* A second startMonitoring has succeeded and the timer count is still one.
C39_Witness ==
    /\ last.op = "startMonitoring"
    /\ last.ret
    /\ nextSubscriptionId >= 4
    /\ timers = 1

\* C40: the registry and the callback table have the same key set.
C40_SameKeys ==
    \A a \in Addresses : monitoredWallets[a].null = threatCallbacks[a].null

====
